---- MODULE Spec2Model ----
(***************************************************************************)
(* Model of meke_kon2.py: the input sanitizer (sanitize_input), the        *)
(* preprocessing tab that applies it to an uploaded file, and the          *)
(* generation cycle of the second tab.                                     *)
(*                                                                         *)
(* A Python str is a sequence of characters; a character is a one-element  *)
(* name.  ASCII characters stand for themselves.  The non-ASCII characters *)
(* of the source are written by code point:                                *)
(*   U6C0F U540D            "shimei" (full name)                           *)
(*   U30D5 U30EA U30AC U30CA            "furigana"                         *)
(*   U30E1 U30FC U30EB U30A2 U30C9 U30EC U30B9   "mail address"            *)
(*   U96FB U8A71 U756A U53F7            "telephone number"                 *)
(*   U643A U5E2F U756A U53F7            "mobile number"                    *)
(*   U90F5 U4FBF U756A U53F7            "postal code"                      *)
(*   U4F4F U6240            "address"                                      *)
(*   U69D8                  honorific "sama" (kanji)                       *)
(*   U3055 U307E            honorific "sama" (hiragana)                    *)
(*   UFF1A                  full-width colon                               *)
(*   U3000                  ideographic space                              *)
(***************************************************************************)
EXTENDS Integers, Sequences, FiniteSets, TLC

\* ------------------------------------------------------------------ bounds

\* Longest uploaded text, counted in tokens of Tokens.
MaxTok == 4
\* Most storyline entries a loaded kon.yaml holds.
MaxStory == 1

\* ------------------------------------------------------- Python str library

\* Characters for which str.isspace() is true (the ones the inputs can hold).
WhiteSpace == {" ", "\t", "\n", "\r", "\f", "U3000"}

\* Line boundaries of str.splitlines() (the ones the inputs can hold).
LineBreaks == {"\n", "\r", "\f"}

IsSpace(c) == c \in WhiteSpace

\* s[i..] starts with pat.
HasPrefixAt(s, i, pat) ==
    /\ i >= 1
    /\ i + Len(pat) - 1 <= Len(s)
    /\ \A k \in 1..Len(pat) : s[i + k - 1] = pat[k]

\* Python's "field in key".
str_in(field, key) ==
    \E i \in 1..(Len(key) - Len(field) + 1) : HasPrefixAt(key, i, field)

\* str.strip(): drop leading and trailing whitespace.
str_strip(s) ==
    LET keep == {i \in 1..Len(s) : ~IsSpace(s[i])}
    IN  IF keep = {} THEN <<>>
        ELSE LET lo == CHOOSE i \in keep : \A j \in keep : i <= j
                 hi == CHOOSE i \in keep : \A j \in keep : j <= i
             IN  SubSeq(s, lo, hi)

\* str.splitlines(): cut at every line boundary, "\r\n" counting as one; a
\* boundary at the very end opens no further line.
RECURSIVE splitlines_from(_, _, _)
splitlines_from(text, i, cur) ==
    IF i > Len(text) THEN (IF cur = <<>> THEN <<>> ELSE <<cur>>)
    ELSE IF text[i] \in LineBreaks
         THEN LET step == IF text[i] = "\r" /\ i < Len(text) /\ text[i + 1] = "\n"
                          THEN 2 ELSE 1
              IN  <<cur>> \o splitlines_from(text, i + step, <<>>)
         ELSE splitlines_from(text, i + 1, Append(cur, text[i]))

str_splitlines(text) == splitlines_from(text, 1, <<>>)

\* "\n".join(lines)
RECURSIVE str_join(_)
str_join(lines) ==
    IF lines = <<>> THEN <<>>
    ELSE IF Len(lines) = 1 THEN lines[1]
    ELSE lines[1] \o <<"\n">> \o str_join(Tail(lines))

\* ---------------------------------------------------------- sanitize_input

sensitive_fields == <<
    <<"U6C0F", "U540D">>,
    <<"U30D5", "U30EA", "U30AC", "U30CA">>,
    <<"U30E1", "U30FC", "U30EB", "U30A2", "U30C9", "U30EC", "U30B9">>,
    <<"U96FB", "U8A71", "U756A", "U53F7">>,
    <<"U643A", "U5E2F", "U756A", "U53F7">>,
    <<"U90F5", "U4FBF", "U756A", "U53F7">>,
    <<"U4F4F", "U6240">> >>

Colons == {"UFF1A", ":"}

\* Variant: the callback returns the empty string.
url_placeholder_empty == <<>>

\* return "[URL]"
url_placeholder == <<"[", "U", "R", "L", "]">>

LogEntry(i, action, field, original) ==
    [line_no |-> i, action |-> action, field |-> field, original |-> original]

\* Variant: https?://\S, the match ending after one character.
url_match_end_one_char(line, i) ==
    LET http == <<"h", "t", "t", "p">>
        sep  == <<":", "/", "/">>
        k == IF HasPrefixAt(line, i, http \o <<"s">> \o sep) THEN i + 8
             ELSE IF HasPrefixAt(line, i, http \o sep) THEN i + 7
             ELSE 0
    IN  IF k = 0 \/ k > Len(line) \/ IsSpace(line[k]) THEN 0 ELSE k

\* One attempt of https?://\S+ at position i: the index of the last character
\* of the match, or 0 when the pattern does not match there.
url_match_end(line, i) ==
    LET http == <<"h", "t", "t", "p">>
        sep  == <<":", "/", "/">>
        k == IF HasPrefixAt(line, i, http \o <<"s">> \o sep) THEN i + 8
             ELSE IF HasPrefixAt(line, i, http \o sep) THEN i + 7
             ELSE 0
    IN  IF k = 0 \/ k > Len(line) \/ IsSpace(line[k]) THEN 0
        ELSE LET stops == {j \in k..Len(line) : IsSpace(line[j])}
             IN  IF stops = {} THEN Len(line)
                 ELSE (CHOOSE j \in stops : \A j2 \in stops : j <= j2) - 1

\* re.sub(r'https?://\S+', _mask_url, line) from position i on: matches are
\* taken left to right, the scan resuming after each match; _mask_url appends
\* one masked_url entry per match and returns "[URL]".
RECURSIVE re_sub_url(_, _, _, _, _)
re_sub_url(line, i, line_no, out, logs) ==
    IF i > Len(line) THEN [line |-> out, logs |-> logs]
    ELSE LET e == url_match_end(line, i)
         IN  IF e = 0
             THEN re_sub_url(line, i + 1, line_no, Append(out, line[i]), logs)
             ELSE re_sub_url(line, e + 1, line_no, out \o url_placeholder,
                             Append(logs, LogEntry(line_no, "masked_url", <<>>,
                                                   SubSeq(line, i, e))))

\* The "if mask_url:" block.
mask_url_step(raw_line, line_no, mask_url) ==
    IF mask_url THEN re_sub_url(raw_line, 1, line_no, <<>>, <<>>)
    ELSE [line |-> raw_line, logs |-> <<>>]

\* kv_pattern.match(line): key is the run before the first colon (it must not
\* be empty), val everything after that colon.
kv_pattern(line) ==
    LET cols == {i \in 1..Len(line) : line[i] \in Colons}
    IN  IF cols = {} THEN [ok |-> FALSE, key |-> <<>>, val |-> <<>>]
        ELSE LET c == CHOOSE i \in cols : \A j \in cols : i <= j
             IN  IF c = 1 THEN [ok |-> FALSE, key |-> <<>>, val |-> <<>>]
                 ELSE [ok |-> TRUE,
                       key |-> SubSeq(line, 1, c - 1),
                       val |-> SubSeq(line, c + 1, Len(line))]

\* Variant: the containment test reversed, "key in field".
is_sensitive_reversed(key) ==
    \E n \in 1..Len(sensitive_fields) : str_in(key, sensitive_fields[n])

\* any(field in key for field in sensitive_fields)
is_sensitive(key) ==
    \E n \in 1..Len(sensitive_fields) : str_in(sensitive_fields[n], key)

\* Variant: only the empty value counts as blank.
is_blank_value_empty_only(val) == val = <<>>

\* val == "" or re.fullmatch(r"(U69D8|U3055U307E)", val)
is_blank_value(val) ==
    \/ val = <<>>
    \/ val = <<"U69D8">>
    \/ val = <<"U3055", "U307E">>

\* Variant: the colon left out of the masked line.
masked_line_no_colon(key) ==
    key \o <<" ", "[", "M", "A", "S", "K", "E", "D", "]">>

\* Variant: a half-width colon in the masked line.
masked_line_half_colon(key) ==
    key \o <<":", " ", "[", "M", "A", "S", "K", "E", "D", "]">>

\* f"{key}<full-width colon> [MASKED]"
masked_line(key) ==
    key \o <<"UFF1A", " ", "[", "M", "A", "S", "K", "E", "D", "]">>

\* Variant: the mode compared with a name the radio never yields.
is_remove_mode_misnamed(pii_mode) == pii_mode = "delete"

\* pii_mode == "remove"
is_remove_mode(pii_mode) == pii_mode = "remove"

\* The branch taken for a sensitive key: what is logged, and the line kept.
sensitive_branch(i, raw_line, key, val, pii_mode) ==
    IF is_blank_value(val)
    THEN [logs |-> <<LogEntry(i, "removed_sensitive_blank", key, raw_line)>>,
          out  |-> <<>>]
    ELSE IF is_remove_mode(pii_mode)
    THEN [logs |-> <<LogEntry(i, "removed_sensitive_field", key, raw_line)>>,
          out  |-> <<>>]
    ELSE [logs |-> <<LogEntry(i, "masked_sensitive_field", key, raw_line)>>,
          out  |-> <<masked_line(key)>>]

\* Variant: "not line", the strip left out.
is_blank_line_no_strip(line) == line = <<>>

\* not line.strip()
is_blank_line(line) == str_strip(line) = <<>>

\* The blank-line check and the key/value classification of one line, after
\* URL masking: the entries appended and the lines appended to cleaned_lines.
classify_line(i, raw_line, line, pii_mode) ==
    IF is_blank_line(line)
    THEN [logs |-> <<LogEntry(i, "removed_empty_line", <<>>, raw_line)>>,
          out  |-> <<>>]
    ELSE LET m   == kv_pattern(line)
             key == str_strip(m.key)
             val == str_strip(m.val)
         IN  IF m.ok /\ is_sensitive(key)
             THEN sensitive_branch(i, raw_line, key, val, pii_mode)
             ELSE [logs |-> <<>>, out |-> <<line>>]

\* Variant: the classification entry logged ahead of the masked_url entries.
loop_body_classify_first(i, raw_line, mask_url, pii_mode, cleaned_lines, logs) ==
    LET u == mask_url_step(raw_line, i, mask_url)
    IN  LET c == classify_line(i, raw_line, u.line, pii_mode)
        IN  [logs |-> logs \o c.logs \o u.logs,
             cleaned_lines |-> cleaned_lines \o c.out]

\* One iteration of "for i, raw_line in enumerate(lines, start=1)": logs and
\* cleaned_lines as the iteration leaves them.
loop_body(i, raw_line, mask_url, pii_mode, cleaned_lines, logs) ==
    LET u == mask_url_step(raw_line, i, mask_url)
    IN  LET c == classify_line(i, raw_line, u.line, pii_mode)
        IN  [logs |-> logs \o u.logs \o c.logs,
             cleaned_lines |-> cleaned_lines \o c.out]

RECURSIVE sanitize_loop(_, _, _, _, _)
sanitize_loop(lines, i, mask_url, pii_mode, acc) ==
    IF i > Len(lines) THEN acc
    ELSE sanitize_loop(lines, i + 1, mask_url, pii_mode,
                       loop_body(i, lines[i], mask_url, pii_mode,
                                 acc.cleaned_lines, acc.logs))

sanitize_input(text, mask_url, pii_mode) ==
    LET r == sanitize_loop(str_splitlines(text), 1, mask_url, pii_mode,
                           [logs |-> <<>>, cleaned_lines |-> <<>>])
    IN  [cleaned_text |-> str_join(r.cleaned_lines), logs |-> r.logs]

\* ------------------------------------------------------------------ inputs

\* The pieces uploaded texts are made of.
Tokens == {
    <<"\n">>,
    <<" ">>,
    <<"x">>,
    <<"UFF1A">>,
    <<"U6C0F", "U540D">>,
    <<"U69D8">>,
    <<"U3055", "U307E">>,
    <<"h", "t", "t", "p", ":", "/", "/", "x">> }

RECURSIVE Flatten(_)
Flatten(toks) ==
    IF toks = <<>> THEN <<>> ELSE toks[1] \o Flatten(Tail(toks))

\* Every text of at most n tokens.
TextsUpTo(n) ==
    UNION {{Flatten(ts) : ts \in [1..k -> Tokens]} : k \in 0..n}

Texts == TextsUpTo(MaxTok)

PiiModes == {"mask", "remove"}

\* ------------------------------------------------------------------- state

None == "None"
EmptySections == [top |-> <<>>, storyline |-> <<>>]

VARIABLES
    uploaded_file,       \* st.file_uploader: None, or the decoded file content
    pii_mode,            \* st.radio
    mask_url,            \* st.checkbox
    orien_text_raw,      \* st.session_state.orien_text_raw
    orien_text_clean,    \* st.session_state.orien_text_clean
    sanitize_logs,       \* st.session_state.sanitize_logs
    generated_sections,  \* st.session_state.generated_sections
    pc,                  \* "idle", or "requesting" inside a generation cycle
    n_requests,          \* requests the running cycle makes: 3 + storyline entries
    local_sections,      \* the cycle's local generated_sections and storyline_texts
    st_errors            \* st.error messages shown by the current script run

widgets == <<uploaded_file, pii_mode, mask_url>>
session == <<orien_text_raw, orien_text_clean, sanitize_logs>>
cycle   == <<pc, n_requests, local_sections, st_errors>>
vars    == <<widgets, session, generated_sections, cycle>>

Init ==
    /\ uploaded_file = None
    /\ pii_mode = "mask"
    /\ mask_url = TRUE
    /\ orien_text_raw = <<>>
    /\ orien_text_clean = <<>>
    /\ sanitize_logs = <<>>
    /\ generated_sections = EmptySections
    /\ pc = "idle"
    /\ n_requests = 0
    /\ local_sections = EmptySections
    /\ st_errors = 0

\* Tab 1 of one script run, with the widgets holding file, mode and flag: the
\* "if uploaded_file is not None:" block.
Tab1(file, mode, flag) ==
    IF file = None
    THEN UNCHANGED session
    ELSE LET r == sanitize_input(file, flag, mode)
         IN  /\ orien_text_raw' = file
             /\ orien_text_clean' = r.cleaned_text
             /\ sanitize_logs' = r.logs

\* A script run in which the generate button is not pressed.
Rerun(file, mode, flag) ==
    /\ pc = "idle"
    /\ Tab1(file, mode, flag)
    /\ st_errors' = 0
    /\ UNCHANGED <<generated_sections, pc, n_requests, local_sections>>

\* The user picks a file in the uploader (one upload per session).
Upload(f) ==
    /\ uploaded_file = None
    /\ uploaded_file' = f
    /\ UNCHANGED <<pii_mode, mask_url>>
    /\ Rerun(f, pii_mode, mask_url)

\* The user changes the radio.
SetPiiMode ==
    \E m \in PiiModes :
        /\ m # pii_mode
        /\ pii_mode' = m
        /\ UNCHANGED <<uploaded_file, mask_url>>
        /\ Rerun(uploaded_file, m, mask_url)

\* The user toggles the checkbox.
SetMaskUrl ==
    /\ mask_url' = ~mask_url
    /\ UNCHANGED <<uploaded_file, pii_mode>>
    /\ Rerun(uploaded_file, pii_mode, ~mask_url)

UploadAny == uploaded_file = None /\ \E f \in Texts : Upload(f)

SanitizeNext == UploadAny \/ SetPiiMode \/ SetMaskUrl

\* The preprocessing tab alone, over every text of Texts.
SanitizeSpec == Init /\ [][SanitizeNext]_vars

\* ------------------------------------------------------- generation (tab 2)

\* for key in [customer name, service or product name, high concept]
TopKeys == <<"customer_name", "service_or_product_name", "high_concept">>

NoResponse == <<"(", "n", "o", "n", "e", ")">>

\* What client.chat.completions.create can return.
Responses == {
    [choices |-> <<>>],
    [choices |-> <<[content |-> None]>>],
    [choices |-> <<[content |-> <<" ">>]>>],
    [choices |-> <<[content |-> <<" ", "a">>]>>] }

get_content_or_none(resp) ==
    IF resp.choices = <<>> THEN None
    ELSE LET content == resp.choices[1].content
         IN  IF content = None THEN None
             ELSE IF str_strip(content) = <<>> THEN None
             ELSE str_strip(content)

\* Requests the running cycle has completed.
req_done == Len(local_sections.top) + Len(local_sections.storyline)

\* The files uploaded in the sessions that go on to generate.
SessionFiles == {
    <<>>,
    <<"U6C0F", "U540D", "UFF1A", "x">>,
    <<"x", "\n", "h", "t", "t", "p", ":", "/", "/", "x">> }

UploadSession == uploaded_file = None /\ \E f \in SessionFiles : Upload(f)

\* The generate button is pressed: the script reruns, tab 1 first, and the
\* cycle starts when there is cleaned text and kon.yaml loaded (here with n
\* storyline entries).
ClickGenerate ==
    /\ pc = "idle"
    /\ UNCHANGED widgets
    /\ Tab1(uploaded_file, pii_mode, mask_url)
    /\ orien_text_clean' # <<>>
    /\ \E n \in 0..MaxStory : n_requests' = Len(TopKeys) + n
    /\ pc' = "requesting"
    /\ local_sections' = EmptySections
    /\ st_errors' = 0
    /\ UNCHANGED generated_sections

\* Variant: the session is updated after every request.
store_sections_eager(k, total, sec, current) == sec

\* The session's generated_sections after the cycle's request number k has
\* returned with the sections sec collected: replaced once all have returned.
store_sections(k, total, sec, current) ==
    IF k = total THEN sec ELSE current

\* The pending request returns resp.
RequestReturns ==
    /\ pc = "requesting"
    /\ req_done < n_requests
    /\ \E resp \in Responses :
         LET content == get_content_or_none(resp)
             text == IF content # None THEN content ELSE NoResponse
             sec == IF req_done < Len(TopKeys)
                    THEN [local_sections EXCEPT !.top = Append(@, text)]
                    ELSE [local_sections EXCEPT !.storyline = Append(@, text)]
         IN  /\ generated_sections' =
                    store_sections(req_done + 1, n_requests, sec, generated_sections)
             /\ IF req_done + 1 = n_requests
                THEN /\ pc' = "idle"
                     /\ local_sections' = EmptySections
                     /\ n_requests' = 0
                ELSE /\ pc' = "requesting"
                     /\ local_sections' = sec
                     /\ n_requests' = n_requests
    /\ UNCHANGED <<widgets, session, st_errors>>

\* The pending request raises: "except Exception as e: st.error(...)".
RequestRaises ==
    /\ pc = "requesting"
    /\ req_done < n_requests
    /\ pc' = "idle"
    /\ st_errors' = st_errors + 1
    /\ local_sections' = EmptySections
    /\ n_requests' = 0
    /\ UNCHANGED <<widgets, session, generated_sections>>

Next ==
    \/ UploadSession
    \/ SetPiiMode
    \/ SetMaskUrl
    \/ ClickGenerate
    \/ RequestReturns
    \/ RequestRaises

\* The whole application.
Spec == Init /\ [][Next]_vars

\* ================================================================== claims

\* ------------------------------------------------ vocabulary of the claims

UrlLiteral == <<"[", "U", "R", "L", "]">>
MaskedSuffix == <<"UFF1A", " ", "[", "M", "A", "S", "K", "E", "D", "]">>
Honorifics == {<<"U69D8">>, <<"U3055", "U307E">>}
RemovedActions ==
    {"removed_empty_line", "removed_sensitive_blank", "removed_sensitive_field"}

\* A file is in the uploader: the session holds sanitize_input's result for
\* it under the current pii_mode and mask_url.
Uploaded == uploaded_file # None

OtherMode == IF pii_mode = "mask" THEN "remove" ELSE "mask"

\* text cut at every "\n" (the inverse of the join); no line for empty text.
RECURSIVE SplitNL(_, _, _)
SplitNL(text, i, cur) ==
    IF i > Len(text) THEN <<cur>>
    ELSE IF text[i] = "\n" THEN <<cur>> \o SplitNL(text, i + 1, <<>>)
    ELSE SplitNL(text, i + 1, Append(cur, text[i]))

JoinedLines(text) == IF text = <<>> THEN <<>> ELSE SplitNL(text, 1, <<>>)

\* The lines of the uploaded text and of the cleaned text.
RawLines == str_splitlines(orien_text_raw)
CleanLines == JoinedLines(orien_text_clean)

EntriesOf(logs, i) == SelectSeq(logs, LAMBDA e : e.line_no = i)
ClassOf(logs, i) ==
    SelectSeq(logs, LAMBDA e : e.line_no = i /\ e.action # "masked_url")
UrlOf(logs, i) ==
    SelectSeq(logs, LAMBDA e : e.line_no = i /\ e.action = "masked_url")
WithAction(logs, action) == SelectSeq(logs, LAMBDA e : e.action = action)

\* Input lines 1..n with no removed_* entry, and the place of line i among
\* the output lines.
KeptIn(logs, n) ==
    {j \in 1..n : \A k \in 1..Len(logs) :
        ~(logs[k].line_no = j /\ logs[k].action \in RemovedActions)}
PosIn(logs, i) == Cardinality(KeptIn(logs, i))

\* Line i of raw as the classification sees it (after URL masking when
\* mask_url is on), with its trimmed key and value.
LineView(raw, i) ==
    LET line == mask_url_step(raw[i], i, mask_url).line
    IN  LET m == kv_pattern(line)
        IN  [line |-> line, ok |-> m.ok,
             key |-> str_strip(m.key), val |-> str_strip(m.val)]

\* The key holds one of the sensitive field names as a substring.
HoldsSensitiveName(key) ==
    \E n \in 1..Len(sensitive_fields) :
        \E p \in 1..Len(key) :
            /\ p + Len(sensitive_fields[n]) - 1 <= Len(key)
            /\ SubSeq(key, p, p + Len(sensitive_fields[n]) - 1) = sensitive_fields[n]

SensitiveLine(v) == v.ok /\ HoldsSensitiveName(v.key)
BlankValue(v) == v.val = <<>> \/ v.val \in Honorifics

\* A sensitive field with a value / with an empty or honorific-only value / a
\* non-blank line that is no sensitive field.
FieldCase(v) == SensitiveLine(v) /\ ~BlankValue(v)
BlankFieldCase(v) == SensitiveLine(v) /\ BlankValue(v)
PlainCase(v) == str_strip(v.line) # <<>> /\ ~SensitiveLine(v)

\* Every output line comes from an input line with no removed_* entry, in
\* order: it is that line after URL masking, or its masked form. So a line
\* with a removed_* entry has no output line.
OutputAccounted(raw, clean, logs) ==
    LET kept == KeptIn(logs, Len(raw))
    IN  /\ Len(clean) = Cardinality(kept)
        /\ \A j \in kept :
             LET v == LineView(raw, j)
             IN  clean[PosIn(logs, j)] \in {v.line, v.key \o MaskedSuffix}

\* The matches of https?://\S+ in a line, stated on its words (maximal runs of
\* non-whitespace): a word holds a match iff the scheme occurs in it with at
\* least one character after; the match runs from the first such place to the
\* end of the word.
WordStarts(line) ==
    {p \in 1..Len(line) : ~IsSpace(line[p]) /\ (p = 1 \/ IsSpace(line[p - 1]))}
WordEnd(line, p) ==
    CHOOSE e \in p..Len(line) :
        /\ \A j \in p..e : ~IsSpace(line[j])
        /\ (e = Len(line) \/ IsSpace(line[e + 1]))
SchemeAt(line, p, e) ==
    \/ HasPrefixAt(line, p, <<"h", "t", "t", "p", ":", "/", "/">>) /\ p + 7 <= e
    \/ HasPrefixAt(line, p, <<"h", "t", "t", "p", "s", ":", "/", "/">>) /\ p + 8 <= e
WordSpan(line, w) ==
    LET e == WordEnd(line, w)
    IN  LET at == {p \in w..e : SchemeAt(line, p, e)}
        IN  IF at = {} THEN {}
            ELSE {[from |-> CHOOSE p \in at : \A q \in at : p <= q, to |-> e]}
MatchSpans(line) == UNION {WordSpan(line, w) : w \in WordStarts(line)}

RECURSIVE SpansInOrder(_)
SpansInOrder(spans) ==
    IF spans = {} THEN <<>>
    ELSE LET first == CHOOSE a \in spans : \A b \in spans : a.from <= b.from
         IN  <<first>> \o SpansInOrder(spans \ {first})

\* The masked_url entries the matches of line i call for, left to right.
ExpectedUrlEntries(raw, i) ==
    LET sp == SpansInOrder(MatchSpans(raw[i]))
    IN  [k \in 1..Len(sp) |->
            LogEntry(i, "masked_url", <<>>, SubSeq(raw[i], sp[k].from, sp[k].to))]

RECURSIVE SumOver(_, _)
SumOver(n, f) == IF n = 0 THEN 0 ELSE f[n] + SumOver(n - 1, f)

\* The number of matches in the text: N of claim C2.
UrlMatchCount(raw) ==
    SumOver(Len(raw), [i \in 1..Len(raw) |-> Cardinality(MatchSpans(raw[i]))])

TokenCount(text) ==
    Cardinality({p \in 1..Len(text) : HasPrefixAt(text, p, UrlLiteral)})

\* ---------------------------------------------------------------------- C1

\* The second call of C1, on the first call's cleaned text.
SecondCall == sanitize_input(orien_text_clean, FALSE, pii_mode)

\* C1 as stated: sanitizing the cleaned text again, with mask_url = false and
\* the same pii_mode, returns an empty log and the text unchanged.
C1_Idempotent_AsStated ==
    Uploaded =>
        LET second == SecondCall
        IN  /\ second.logs = <<>>
            /\ second.cleaned_text = orien_text_clean

\* C1, amended: the second call returns the text unchanged; its log is empty
\* under pii_mode = remove, and under pii_mode = mask it holds exactly one
\* masked_sensitive_field entry for each line the first call masked (that
\* line, "<key><full-width colon> [MASKED]", is masked again), nothing else.
C1_Idempotent_Text ==
    Uploaded =>
        LET second == SecondCall
            masked == WithAction(sanitize_logs, "masked_sensitive_field")
        IN  /\ second.cleaned_text = orien_text_clean
            /\ pii_mode = "remove" => second.logs = <<>>
            /\ second.logs =
                 [k \in 1..Len(masked) |->
                    LogEntry(PosIn(sanitize_logs, masked[k].line_no),
                             "masked_sensitive_field",
                             masked[k].field,
                             masked[k].field \o MaskedSuffix)]

C1_Witness ==
    /\ Uploaded /\ pii_mode = "mask" /\ mask_url
    /\ Len(WithAction(sanitize_logs, "masked_sensitive_field")) >= 1
    /\ Len(WithAction(sanitize_logs, "masked_url")) >= 1
    /\ SecondCall.logs # <<>>
    /\ SecondCall.cleaned_text = orien_text_clean

\* ---------------------------------------------------------------------- C2

UrlLogComplete(raw) ==
    LET urls == WithAction(sanitize_logs, "masked_url")
    IN  /\ Len(urls) = UrlMatchCount(raw)
        /\ \A k \in 1..Len(urls) : urls[k].line_no \in 1..Len(raw)
        /\ \A i \in 1..Len(raw) :
             UrlOf(sanitize_logs, i) = ExpectedUrlEntries(raw, i)

\* C2 as stated: with mask_url = true and N matches in the input, the cleaned
\* text holds exactly N [URL] tokens and the log exactly N masked_url entries,
\* each with the matched substring and the line of the match.
C2_UrlComplete_AsStated ==
    (Uploaded /\ mask_url) =>
        LET raw == RawLines
        IN  /\ TokenCount(orien_text_clean) = UrlMatchCount(raw)
            /\ UrlLogComplete(raw)

\* C2, amended: the log holds exactly N masked_url entries, each with the
\* matched substring and the line of the match, left to right; the cleaned
\* text holds exactly N [URL] tokens when the input holds no literal [URL] and
\* no line with a match is a sensitive field (such a line is dropped or
\* replaced by its masked form, match included).
C2_UrlComplete ==
    (Uploaded /\ mask_url) =>
        LET raw == RawLines
        IN  /\ UrlLogComplete(raw)
            /\ ( /\ TokenCount(orien_text_raw) = 0
                 /\ \A i \in 1..Len(raw) :
                      MatchSpans(raw[i]) # {} => ~SensitiveLine(LineView(raw, i)) )
               => TokenCount(orien_text_clean) = UrlMatchCount(raw)

C2_Witness ==
    /\ Uploaded /\ mask_url
    /\ UrlMatchCount(RawLines) = 2
    /\ Len(RawLines) = 1
    /\ TokenCount(orien_text_raw) = 0
    /\ TokenCount(orien_text_clean) = 2

\* ---------------------------------------------------------------------- C3

MaskedOutcome(raw, clean, i, v) ==
    /\ ClassOf(sanitize_logs, i) =
         <<LogEntry(i, "masked_sensitive_field", v.key, raw[i])>>
    /\ OutputAccounted(raw, clean, sanitize_logs)
    /\ clean[PosIn(sanitize_logs, i)] = v.key \o MaskedSuffix

C4_RemoveField ==
    (Uploaded /\ pii_mode = "remove") =>
        LET raw == RawLines
            accounted == OutputAccounted(RawLines, CleanLines, sanitize_logs)
        IN  /\ \A i \in 1..Len(raw) :
                 LET v == LineView(raw, i)
                 IN  FieldCase(v) =>
                        /\ ClassOf(sanitize_logs, i) =
                             <<LogEntry(i, "removed_sensitive_field", v.key, raw[i])>>
                        /\ accounted
            /\ WithAction(sanitize_logs, "masked_sensitive_field") = <<>>

C4_Witness ==
    /\ Uploaded /\ pii_mode = "remove"
    /\ Len(CleanLines) >= 1
    /\ \E i \in 1..Len(RawLines) :
         /\ FieldCase(LineView(RawLines, i))
         /\ i \notin KeptIn(sanitize_logs, Len(RawLines))

\* ---------------------------------------------------------------------- C5

\* C5: a sensitive field whose value is empty or exactly an honorific has no
\* output line and exactly one removed_sensitive_blank entry (field = trimmed
\* key, original = raw line), with the same entries under the other pii_mode.
C5_BlankField ==
    Uploaded =>
        LET raw == RawLines
            accounted == OutputAccounted(RawLines, CleanLines, sanitize_logs)
            other == sanitize_input(orien_text_raw, mask_url, OtherMode)
        IN  \A i \in 1..Len(raw) :
                LET v == LineView(raw, i)
                IN  BlankFieldCase(v) =>
                        /\ ClassOf(sanitize_logs, i) =
                             <<LogEntry(i, "removed_sensitive_blank", v.key, raw[i])>>
                        /\ accounted
                        /\ EntriesOf(other.logs, i) = EntriesOf(sanitize_logs, i)

C5_Witness ==
    /\ Uploaded /\ pii_mode = "mask"
    /\ \E i \in 1..Len(RawLines) :
         /\ BlankFieldCase(LineView(RawLines, i))
         /\ LineView(RawLines, i).val \in Honorifics
         /\ i \notin KeptIn(sanitize_logs, Len(RawLines))

\* ---------------------------------------------------------------------- C6

\* C6: every empty or whitespace-only input line has no output line and
\* exactly one entry, removed_empty_line with its 1-based index and the raw
\* line; no line joined into the cleaned text is empty or whitespace-only.
C6_BlankLines ==
    Uploaded =>
        LET raw == RawLines
            clean == CleanLines
            accounted == OutputAccounted(RawLines, CleanLines, sanitize_logs)
        IN  /\ \A i \in 1..Len(raw) : str_strip(raw[i]) = <<>> =>
                 /\ EntriesOf(sanitize_logs, i) =
                      <<LogEntry(i, "removed_empty_line", <<>>, raw[i])>>
                 /\ accounted
            /\ \A k \in 1..Len(clean) : str_strip(clean[k]) # <<>>

C6_Witness ==
    /\ Uploaded
    /\ Len(RawLines) >= 3
    /\ \E i \in 1..Len(RawLines) : RawLines[i] = <<>>
    /\ \E i \in 1..Len(RawLines) :
         RawLines[i] # <<>> /\ str_strip(RawLines[i]) = <<>>
    /\ Len(CleanLines) = 1

\* ---------------------------------------------------------------------- C7

C8_LogOrder ==
    Uploaded =>
        /\ \A k \in 1..(Len(sanitize_logs) - 1) :
             sanitize_logs[k].line_no <= sanitize_logs[k + 1].line_no
        /\ \A k, l \in 1..Len(sanitize_logs) :
             ~( /\ k < l
                /\ sanitize_logs[k].line_no = sanitize_logs[l].line_no
                /\ sanitize_logs[k].action # "masked_url" )

C8_Witness ==
    /\ Uploaded
    /\ \E k \in 1..(Len(sanitize_logs) - 2) :
         /\ sanitize_logs[k].line_no < sanitize_logs[k + 1].line_no
         /\ sanitize_logs[k + 1].action = "masked_url"
         /\ sanitize_logs[k + 2].action # "masked_url"
         /\ sanitize_logs[k + 2].line_no = sanitize_logs[k + 1].line_no

\* --------------------------------------------------------------------- C10

\* The line is one URL match from its first to its last character.
WholeLineUrl(line) == MatchSpans(line) = {[from |-> 1, to |-> Len(line)]}

\* C10 as stated: with mask_url = true a line that is entirely a URL gets its
\* masked_url entry, then a removed_empty_line entry with the raw line, and no
\* output line.
C10_UrlOnlyLine_AsStated ==
    (Uploaded /\ mask_url) =>
        LET raw == RawLines
        IN  \A i \in 1..Len(raw) : WholeLineUrl(raw[i]) =>
                /\ EntriesOf(sanitize_logs, i) =
                     <<LogEntry(i, "masked_url", <<>>, raw[i]),
                       LogEntry(i, "removed_empty_line", <<>>, raw[i])>>
                /\ OutputAccounted(raw, CleanLines, sanitize_logs)

\* C10, amended: URL masking never blanks a line, each match becoming the
\* non-blank token [URL]: with mask_url = true a line that is entirely a URL
\* gets its masked_url entry alone and is kept as the output line "[URL]";
\* removed_empty_line is logged only for lines blank before masking.
C10_UrlOnlyLine ==
    (Uploaded /\ mask_url) =>
        LET raw == RawLines
            clean == CleanLines
        IN  \A i \in 1..Len(raw) :
                /\ WholeLineUrl(raw[i]) =>
                     /\ EntriesOf(sanitize_logs, i) =
                          <<LogEntry(i, "masked_url", <<>>, raw[i])>>
                     /\ OutputAccounted(raw, clean, sanitize_logs)
                     /\ clean[PosIn(sanitize_logs, i)] = UrlLiteral
                /\ WithAction(EntriesOf(sanitize_logs, i), "removed_empty_line") # <<>>
                   => str_strip(raw[i]) = <<>>

C10_Witness ==
    /\ Uploaded /\ mask_url
    /\ \E i \in 1..Len(RawLines) :
         /\ i > 1
         /\ WholeLineUrl(RawLines[i])
         /\ CleanLines[PosIn(sanitize_logs, i)] = UrlLiteral

\* ---------------------------------------------------------------------- C9

\* C9: entering and running a generation cycle leaves raw text, cleaned text
\* and logs as they were; a request that raises ends the cycle (no further
\* request is issued) with exactly one error reported and generated_sections
\* as it was; generated_sections is replaced only by the step in which the
\* cycle's last request returns.
C9_FailedCycleKeepsState ==
    [][ /\ (pc = "requesting" \/ pc' = "requesting") => UNCHANGED session
        /\ pc = "idle" => generated_sections' = generated_sections
        /\ pc = "requesting" =>
             /\ st_errors' # st_errors =>
                  /\ st_errors' = 1
                  /\ pc' = "idle"
                  /\ generated_sections' = generated_sections
             /\ generated_sections' # generated_sections =>
                  /\ req_done + 1 = n_requests
                  /\ st_errors' = st_errors
             /\ pc' = "requesting" => req_done' = req_done + 1
      ]_vars

C9_Witness ==
    /\ pc = "idle"
    /\ st_errors = 1
    /\ generated_sections # EmptySections
    /\ Len(generated_sections.storyline) = 1
    /\ orien_text_clean # <<>>

====
